---- MODULE Spec2Model ----
(***************************************************************************)
(* Voice-Calc: the useLiveMath hook (session controller, protocol client,  *)
(* playback scheduler) as a state machine.  Every event-loop task of the    *)
(* hook (connect() up to its next await, each continuation of connect(),    *)
(* each session callback, each decode continuation, each 'ended' listener,  *)
(* disconnect()) is one action; promise reactions that run in the microtask *)
(* checkpoint of a task are part of that task's action.                     *)
(***************************************************************************)
EXTENDS Integers, Sequences, FiniteSets, TLC

VARIABLES
    isConnected,            \* useState(false)
    isConnecting,           \* useState(false)
    error,                  \* useState<string | null>(null)
    inputAudioContextRef,   \* 0 = null, else the connect() run that made the context
    outputAudioContextRef,  \* 0 = null, else the connect() run that made the context
    nextStartTimeRef,       \* playback watermark
    sourcesRef,             \* Set<AudioBufferSourceNode>, as indices into sources
    sessionPromiseRef,      \* 0 = null, else the connect() run that made the promise
    activeRef,              \* the "active" guard
    runs,                   \* one record per connect() call that passed the guard
    decoding,               \* onmessage invocations suspended at await decodeAudioData
    sources,                \* every AudioBufferSourceNode ever started, in start order
    arrived,                \* number of audio fragments delivered so far
    calls,                  \* every function call delivered, in delivery order
    acks,                   \* every sendToolResponse, in send order
    frames,                 \* every onaudioprocess event, in capture order
    ops,                    \* every onOperation call, in call order
    currentTotal,           \* App: useState<number>(0), a rational <<n, d>>
    history,                \* App: useState<HistoryItem[]>([])
    lastTranscript,         \* App: useState<string>("")
    now,                    \* wall clock
    lastOp                  \* the task that ran last

ctrl == <<isConnected, isConnecting, error, inputAudioContextRef,
          outputAudioContextRef, nextStartTimeRef, sourcesRef,
          sessionPromiseRef, activeRef>>
vars == <<isConnected, isConnecting, error, inputAudioContextRef,
          outputAudioContextRef, nextStartTimeRef, sourcesRef,
          sessionPromiseRef, activeRef, runs, decoding, sources, arrived,
          calls, acks, frames, ops, currentTotal, history, lastTranscript, now,
          lastOp>>
app == <<ops, currentTotal, history, lastTranscript>>

(* Bounds of the specifications. *)
LifeRuns == 1
LifeFragments == 1
RaceRuns == 2
RaceFrames == 1
PlayRuns == 1
ReplayRuns == 2
TrackRuns == 1
TrackFragments == 2
TrackTime == 2
PlayFragments == 2
MaxTime == 3
ToolRuns == 1
MaxInvocations == 3
CalcRuns == 1
CalcInvocations == 3

\* durations of the decoded buffers, in clock ticks
Durations == {1, 2}

NoError == "null"
ConnectionError == "Connection error occurred."
SetupError == "Failed to connect to microphone or API"
ToolName == "performMathOperation"
FunctionNames == {ToolName, "otherFunction"}

Max(a, b) == IF a >= b THEN a ELSE b

\* the task that ran: its name, the connect() run it belongs to, whether it
\* raised, and (for onclose and onerror) the connection state it found
OpFrom(name, k, threw, from) == [op |-> name, k |-> k, threw |-> threw, from |-> from]
Op(name, k, threw) == OpFrom(name, k, threw, "-")

\* ctx.currentTime of the output context made by run c
currentTime(c) == now - runs[c].born

Init ==
    /\ isConnected = FALSE
    /\ isConnecting = FALSE
    /\ error = NoError
    /\ inputAudioContextRef = 0
    /\ outputAudioContextRef = 0
    /\ nextStartTimeRef = 0
    /\ sourcesRef = {}
    /\ sessionPromiseRef = 0
    /\ activeRef = FALSE
    /\ runs = <<>>
    /\ decoding = {}
    /\ sources = <<>>
    /\ arrived = 0
    /\ calls = <<>>
    /\ acks = <<>>
    /\ frames = <<>>
    /\ ops = <<>>
    /\ currentTotal = <<0, 1>>
    /\ history = <<>>
    /\ lastTranscript = ""
    /\ now = 0
    /\ lastOp = Op("init", 0, FALSE)

(***************************************************************************)
(* connect()                                                               *)
(***************************************************************************)
\* mutant: the guard never holds
ConnectGuardOff == FALSE

\* the early return of connect()
ConnectGuard == activeRef

\* connect() from its call to its first await (resume or getUserMedia)
Connect ==
    /\ lastOp' = Op("connect", 0, FALSE)
    /\ IF ConnectGuard
       THEN UNCHANGED <<ctrl, runs>>
       ELSE \E suspended \in BOOLEAN :
            LET k == Len(runs) + 1 IN
            /\ isConnecting' = TRUE
            /\ error' = NoError
            /\ runs' = Append(runs,
                 [pc |-> IF suspended THEN "resume" ELSE "getUserMedia",
                  conn |-> "none",
                  inputCtx |-> IF suspended THEN "suspended" ELSE "running",
                  outputCtx |-> IF suspended THEN "suspended" ELSE "running",
                  born |-> now,
                  closeQueued |-> FALSE,
                  capturing |-> FALSE,
                  tornAt |-> 0,
                  failedAt |-> 0])
            /\ inputAudioContextRef' = IF suspended THEN inputAudioContextRef ELSE k
            /\ outputAudioContextRef' = IF suspended THEN outputAudioContextRef ELSE k
            /\ UNCHANGED <<isConnected, nextStartTimeRef, sourcesRef,
                           sessionPromiseRef, activeRef>>
    /\ UNCHANGED <<decoding, sources, arrived, calls, acks, frames,
                   app, now>>

\* the awaited resume() of a suspended context settles: the refs are stored
Resumed(k) ==
    /\ runs[k].pc = "resume"
    /\ lastOp' = Op("resumed", k, FALSE)
    /\ runs' = [runs EXCEPT ![k].pc = "getUserMedia",
                            ![k].inputCtx = "running",
                            ![k].outputCtx = "running",
                            ![k].born = now]
    /\ inputAudioContextRef' = k
    /\ outputAudioContextRef' = k
    /\ UNCHANGED <<isConnected, isConnecting, error, nextStartTimeRef, sourcesRef,
                   sessionPromiseRef, activeRef, decoding, sources, arrived,
                   calls, acks, frames,
                   app, now>>

\* getUserMedia resolves: ai.live.connect is called and its promise stored
MediaGranted(k) ==
    /\ runs[k].pc = "getUserMedia"
    /\ lastOp' = Op("mediaGranted", k, FALSE)
    /\ runs' = [runs EXCEPT ![k].pc = "done", ![k].conn = "connecting"]
    /\ sessionPromiseRef' = k
    /\ UNCHANGED <<isConnected, isConnecting, error, inputAudioContextRef,
                   outputAudioContextRef, nextStartTimeRef, sourcesRef, activeRef,
                   decoding, sources, arrived, calls, acks, frames,
                   app, now>>

\* getUserMedia rejects: the catch block
MediaDenied(k) ==
    /\ runs[k].pc = "getUserMedia"
    /\ lastOp' = Op("mediaDenied", k, FALSE)
    /\ runs' = [runs EXCEPT ![k].pc = "caught"]
    /\ error' = SetupError
    /\ isConnecting' = FALSE
    /\ UNCHANGED <<isConnected, inputAudioContextRef, outputAudioContextRef,
                   nextStartTimeRef, sourcesRef, sessionPromiseRef, activeRef,
                   decoding, sources, arrived, calls, acks, frames,
                   app, now>>

(***************************************************************************)
(* Session callbacks                                                       *)
(***************************************************************************)
\* the number of connect() runs made when the teardown of run k began
TornAt(k) == IF runs[k].tornAt = 0 THEN Len(runs) ELSE runs[k].tornAt

\* mutant: isConnecting is left as it is
OnOpenFlagsKeepConnecting ==
    /\ isConnected' = TRUE
    /\ UNCHANGED isConnecting
    /\ activeRef' = TRUE

\* the three flags onopen sets
OnOpenFlags ==
    /\ isConnected' = TRUE
    /\ isConnecting' = FALSE
    /\ activeRef' = TRUE

\* onopen; the session promise resolves in the same task, so a close() that
\* disconnect() chained on the pending promise runs right after the callback
OnOpen(k) ==
    /\ runs[k].conn = "connecting"
    /\ lastOp' = Op("onopen", k, FALSE)
    /\ OnOpenFlags
    /\ runs' = [runs EXCEPT ![k].conn = IF runs[k].closeQueued THEN "closing" ELSE "open",
                            ![k].capturing = TRUE]
    /\ UNCHANGED <<error, inputAudioContextRef, outputAudioContextRef,
                   nextStartTimeRef, sourcesRef, sessionPromiseRef, decoding,
                   sources, arrived, calls, acks, frames,
                   app, now>>

\* scriptProcessor.onaudioprocess of run k: the processor is wired up by onopen
\* and fires while the input context runs; the frame is sent to the run's own
\* session by a reaction on its (resolved) promise
OnAudioProcess(k) ==
    /\ runs[k].capturing
    /\ runs[k].inputCtx = "running"
    /\ lastOp' = Op("audioprocess", k, FALSE)
    /\ frames' = Append(frames, [session |-> k, open |-> runs[k].conn = "open",
                                 active |-> activeRef, sent |-> activeRef])
    /\ UNCHANGED <<ctrl, runs, decoding, sources, arrived, calls, acks, app, now>>

\* onclose
OnClose(k) ==
    /\ runs[k].conn \in {"connecting", "open", "closing", "failed"}
    /\ lastOp' = OpFrom("onclose", k, FALSE, runs[k].conn)
    /\ isConnected' = FALSE
    /\ activeRef' = FALSE
    /\ runs' = [runs EXCEPT ![k].conn = "closed", ![k].tornAt = TornAt(k)]
    /\ UNCHANGED <<isConnecting, error, inputAudioContextRef, outputAudioContextRef,
                   nextStartTimeRef, sourcesRef, sessionPromiseRef, decoding,
                   sources, arrived, calls, acks, frames,
                   app, now>>

\* onerror
OnError(k) ==
    /\ runs[k].conn \in {"connecting", "open", "closing"}
    /\ lastOp' = OpFrom("onerror", k, FALSE, runs[k].conn)
    /\ error' = ConnectionError
    /\ isConnected' = FALSE
    /\ activeRef' = FALSE
    /\ runs' = [runs EXCEPT ![k].conn = "failed",
                            ![k].tornAt = TornAt(k),
                            ![k].failedAt = IF runs[k].conn = "open" THEN Len(runs) ELSE @]
    /\ UNCHANGED <<isConnecting, inputAudioContextRef, outputAudioContextRef,
                   nextStartTimeRef, sourcesRef, sessionPromiseRef, decoding,
                   sources, arrived, calls, acks, frames,
                   app, now>>

(***************************************************************************)
(* onmessage                                                               *)
(***************************************************************************)
\* Numbers are rationals <<n, d>> in lowest terms with d > 0; NaN is <<0, 0>>.
NaN == <<0, 0>>
Zero == <<0, 1>>
IsNaN(x) == x[2] = 0
Abs(n) == IF n < 0 THEN -n ELSE n

RECURSIVE Gcd(_, _)
Gcd(a, b) == IF b = 0 THEN a ELSE Gcd(b, a % b)

Rat(n, d) ==
    LET g == Gcd(Abs(n), Abs(d))
        sign == IF d < 0 THEN -1 ELSE 1
    IN  <<sign * (n \div g), sign * (d \div g)>>

Plus(x, y) == IF IsNaN(x) \/ IsNaN(y) THEN NaN ELSE Rat(x[1] * y[2] + y[1] * x[2], x[2] * y[2])
Minus(x, y) == IF IsNaN(x) \/ IsNaN(y) THEN NaN ELSE Rat(x[1] * y[2] - y[1] * x[2], x[2] * y[2])
Times(x, y) == IF IsNaN(x) \/ IsNaN(y) THEN NaN ELSE Rat(x[1] * y[1], x[2] * y[2])
\* x / y for y that is not zero
DividedBy(x, y) == IF IsNaN(x) \/ IsNaN(y) THEN NaN ELSE Rat(x[1] * y[2], x[2] * y[1])

\* Number(args.value) for the raw values the model sends
Number(raw) ==
    CASE raw = "0" -> Zero
      [] raw = "2" -> <<2, 1>>
      [] OTHER -> NaN

\* the keys of the OperationType enum object, each mapped to itself
OperationType == {"ADD", "SUBTRACT", "MULTIPLY", "DIVIDE", "RESET", "UNKNOWN"}

\* names every JavaScript object inherits from Object.prototype: the lookup
\* OperationType[opKey] finds them too and yields a function, which is truthy
InheritedKeys == {"constructor"}

\* OperationType[opKey] || OperationType.UNKNOWN
OperationOf(opKey) ==
    IF opKey \in OperationType THEN opKey
    ELSE IF opKey \in InheritedKeys THEN "function " \o opKey
    ELSE "UNKNOWN"

\* mutant: a division by zero is carried out and yields a non-number
DivideUnguarded(total, value) == IF value = Zero THEN NaN ELSE DividedBy(total, value)

\* case DIVIDE of handleOperation
Divide(total, value) == IF value # Zero THEN DividedBy(total, value) ELSE total

\* App.handleOperation: the new [total, history]
handleOperation(total, hist, op, value) ==
    LET newTotal ==
            CASE op = "ADD" -> Plus(total, value)
              [] op = "SUBTRACT" -> Minus(total, value)
              [] op = "MULTIPLY" -> Times(total, value)
              [] op = "DIVIDE" -> Divide(total, value)
              [] op = "RESET" -> Zero
              [] OTHER -> total
    IN  IF op = "RESET"
        THEN [total |-> Zero, history |-> <<>>]
        ELSE [total |-> newTotal,
              history |-> Append(hist, [operation |-> op, value |-> value])]

\* The toolCall loop over functionCalls fcs, the first of which has id `id`:
\* the onOperation calls it makes, the ids whose sendToolResponse it chains on
\* the session promise, and whether it threw (args missing: the read of
\* args.operation is a TypeError that ends the handler).
RECURSIVE ToolCalls(_, _)
ToolCalls(fcs, id) ==
    IF fcs = <<>> THEN [ops |-> <<>>, acked |-> <<>>, threw |-> FALSE]
    ELSE IF Head(fcs).name # ToolName THEN ToolCalls(Tail(fcs), id + 1)
    ELSE IF ~Head(fcs).hasArgs THEN [ops |-> <<>>, acked |-> <<>>, threw |-> TRUE]
    ELSE LET rest == ToolCalls(Tail(fcs), id + 1)
             call == [id |-> id, op |-> OperationOf(Head(fcs).operation),
                      value |-> Number(Head(fcs).value),
                      key |-> Head(fcs).operation, raw |-> Head(fcs).value]
         IN  [ops |-> <<call>> \o rest.ops, acked |-> <<id>> \o rest.acked,
              threw |-> rest.threw]

\* the App state after the onOperation calls cs, and the calls logged with
\* the total before and after each
RECURSIVE Applied(_, _, _)
Applied(total, hist, cs) ==
    IF cs = <<>> THEN [total |-> total, history |-> hist, log |-> <<>>]
    ELSE LET r == handleOperation(total, hist, Head(cs).op, Head(cs).value)
             rest == Applied(r.total, r.history, Tail(cs))
             entry == [id |-> Head(cs).id, op |-> Head(cs).op,
                       value |-> Head(cs).value, key |-> Head(cs).key,
                       raw |-> Head(cs).raw, before |-> total, after |-> r.total]
         IN  [total |-> rest.total, history |-> rest.history,
              log |-> <<entry>> \o rest.log]

\* mutant: the acknowledgement is sent before the call's own onOperation
AckPointEarly(loopEnd, own) == own - 1

\* how many onOperation calls have returned when the reaction chained on the
\* session promise sends the acknowledgement: the reaction runs after the
\* synchronous part of the handler, so all `loopEnd` calls of the loop have
\* (`own` is the position of the acknowledged call's own onOperation)
AckPoint(loopEnd, own) == loopEnd

\* the delivered function calls, numbered in delivery order
Delivered(k, fcs) ==
    [i \in 1..Len(fcs) |->
        [id |-> Len(calls) + i, session |-> k, name |-> fcs[i].name,
         open |-> runs[k].conn = "open" /\ activeRef]]

\* mutant: the watermark is overwritten with the clock
ArrivalWatermarkClock(t, clock) == clock

\* nextStartTimeRef on arrival of a fragment, the output clock reading `clock`
ArrivalWatermark(t, clock) == Max(t, clock)

\* mutant: the watermark is not advanced
AdvanceWatermarkNone(t, d) == t

\* nextStartTimeRef after a buffer of duration d was started at t
AdvanceWatermark(t, d) == t + d

\* onmessage up to the await of decodeAudioData (or to its end)
OnMessage(k, m) ==
    /\ runs[k].conn \in {"open", "closing"}
    /\ LET r == ToolCalls(m.toolCall, Len(calls) + 1)
           audio == ~r.threw /\ m.audio /\ outputAudioContextRef # 0
       IN  /\ lastOp' = Op("onmessage", k, r.threw)
           /\ calls' = calls \o Delivered(k, m.toolCall)
           /\ ops' = ops \o Applied(currentTotal, history, r.ops).log
           /\ acks' = acks \o [i \in 1..Len(r.acked) |->
                                 [id |-> r.acked[i], session |-> k,
                                  after |-> AckPoint(Len(ops) + Len(r.ops), Len(ops) + i)]]
           /\ currentTotal' = Applied(currentTotal, history, r.ops).total
           /\ history' = Applied(currentTotal, history, r.ops).history
           /\ lastTranscript' =
                IF ~r.threw /\ m.transcript # "" THEN m.transcript ELSE lastTranscript
           /\ arrived' = IF m.audio THEN arrived + 1 ELSE arrived
           /\ nextStartTimeRef' =
                IF audio
                THEN ArrivalWatermark(nextStartTimeRef, currentTime(outputAudioContextRef))
                ELSE nextStartTimeRef
           /\ decoding' =
                IF audio
                THEN decoding \cup {[n |-> arrived + 1, ctx |-> outputAudioContextRef,
                                     session |-> k]}
                ELSE decoding
    /\ UNCHANGED <<isConnected, isConnecting, error, inputAudioContextRef,
                   outputAudioContextRef, sourcesRef, sessionPromiseRef, activeRef,
                   runs, sources, frames, now>>

\* the continuation after await decodeAudioData: a buffer of duration d
DecodeDone(f, d) ==
    /\ f \in decoding
    /\ lastOp' = Op("decoded", f.session, FALSE)
    /\ decoding' = decoding \ {f}
    /\ sources' = Append(sources,
         [n |-> f.n, ctx |-> f.ctx, session |-> f.session,
          start |-> nextStartTimeRef, duration |-> d,
          at |-> currentTime(f.ctx), state |-> "started"])
    /\ nextStartTimeRef' = AdvanceWatermark(nextStartTimeRef, d)
    /\ sourcesRef' = sourcesRef \cup {Len(sources) + 1}
    /\ UNCHANGED <<isConnected, isConnecting, error, inputAudioContextRef,
                   outputAudioContextRef, sessionPromiseRef, activeRef, runs,
                   arrived, calls, acks, frames,
                   app, now>>

\* decodeAudioData rejects: the handler ends, the fragment is dropped
DecodeFailed(f) ==
    /\ f \in decoding
    /\ lastOp' = Op("decodeFailed", f.session, TRUE)
    /\ decoding' = decoding \ {f}
    /\ UNCHANGED <<ctrl, runs, sources, arrived, calls, acks, frames,
                   app, now>>

\* mutant: the listener empties the set
EndedDeletesAll(set, i) == {}

\* sourcesRef.current.delete(source) in the 'ended' listener
EndedDeletes(set, i) == set \ {i}

\* the 'ended' listener of source i: after its natural end, or after stop()
Ended(i) ==
    /\ \/ sources[i].state = "stopped"
       \/ /\ sources[i].state = "started"
          /\ runs[sources[i].ctx].outputCtx = "running"
          /\ currentTime(sources[i].ctx)
               >= Max(sources[i].start, sources[i].at) + sources[i].duration
    /\ lastOp' = Op("ended", sources[i].session, FALSE)
    /\ sources' = [sources EXCEPT ![i].state = "ended"]
    /\ sourcesRef' = EndedDeletes(sourcesRef, i)
    /\ UNCHANGED <<isConnected, isConnecting, error, inputAudioContextRef,
                   outputAudioContextRef, nextStartTimeRef, sessionPromiseRef,
                   activeRef, runs, decoding, arrived, calls, acks, frames,
                   app, now>>

(***************************************************************************)
(* disconnect()                                                            *)
(***************************************************************************)
\* close() of an AudioContext that is already closed rejects
CloseRejects ==
    \/ inputAudioContextRef # 0 /\ runs[inputAudioContextRef].inputCtx = "closed"
    \/ outputAudioContextRef # 0 /\ runs[outputAudioContextRef].outputCtx = "closed"

\* mutant: isConnecting is left as it is
DisconnectFlagsConnectedOnly ==
    /\ isConnected' = FALSE
    /\ UNCHANGED isConnecting

\* the two setters that end disconnect()
DisconnectFlags ==
    /\ isConnected' = FALSE
    /\ isConnecting' = FALSE

Disconnect ==
    /\ lastOp' = Op("disconnect", 0, CloseRejects)
    /\ activeRef' = FALSE
    /\ inputAudioContextRef' = 0
    /\ sources' = [i \in DOMAIN sources |->
                     IF outputAudioContextRef # 0 /\ i \in sourcesRef
                        /\ sources[i].state = "started"
                     THEN [sources[i] EXCEPT !.state = "stopped"]
                     ELSE sources[i]]
    /\ sourcesRef' = IF outputAudioContextRef # 0 THEN {} ELSE sourcesRef
    /\ outputAudioContextRef' = 0
    /\ runs' = [k \in DOMAIN runs |->
                 [runs[k] EXCEPT
                    !.inputCtx = IF k = inputAudioContextRef THEN "closed" ELSE @,
                    !.outputCtx = IF k = outputAudioContextRef THEN "closed" ELSE @,
                    !.conn = IF k = sessionPromiseRef /\ @ = "open" THEN "closing" ELSE @,
                    !.closeQueued = IF k = sessionPromiseRef /\ runs[k].conn = "connecting"
                                    THEN TRUE ELSE @,
                    !.tornAt = IF k = sessionPromiseRef THEN TornAt(k) ELSE @]]
    /\ sessionPromiseRef' = 0
    /\ DisconnectFlags
    /\ UNCHANGED <<error, nextStartTimeRef, decoding, arrived, calls, acks, frames,
                   app, now>>

\* the clocks advance
Tick ==
    /\ now' = now + 1
    /\ UNCHANGED <<ctrl, runs, decoding, sources, arrived, calls, acks, frames, app,
                   lastOp>>

(***************************************************************************)
(* Specifications                                                          *)
(***************************************************************************)
AudioMessage == [toolCall |-> <<>>, transcript |-> "", audio |-> TRUE]
TranscriptMessage == [toolCall |-> <<>>, transcript |-> "add two", audio |-> FALSE]

Call(operation, value) ==
    [name |-> ToolName, hasArgs |-> TRUE, operation |-> operation, value |-> value]

\* the function calls the remote service sends: the declared operations with
\* numeric values, a non-numeric value, an undeclared operation name, a name
\* that Object.prototype defines, an undeclared function, a call without args
FunctionCalls ==
    {Call("ADD", "2"), Call("SUBTRACT", "2"), Call("MULTIPLY", "2"),
     Call("DIVIDE", "2"), Call("DIVIDE", "0"), Call("RESET", "0"),
     Call("ADD", "abc"), Call("BOGUS", "2"), Call("constructor", "2"),
     [name |-> "otherFunction", hasArgs |-> TRUE, operation |-> "ADD", value |-> "2"],
     [name |-> ToolName, hasArgs |-> FALSE, operation |-> "", value |-> ""]}

ToolMessages ==
    {[toolCall |-> fcs, transcript |-> "", audio |-> FALSE] :
        fcs \in {<<a>> : a \in FunctionCalls}
                \cup {<<a, b>> : a \in FunctionCalls, b \in FunctionCalls}}

\* lifecycle: connect() and disconnect() called at any time, every session
\* callback, one audio fragment, no clock
Next ==
    \/ (Len(runs) < LifeRuns \/ isConnected) /\ Connect
    \/ \E k \in DOMAIN runs : Resumed(k)
    \/ \E k \in DOMAIN runs : MediaGranted(k)
    \/ \E k \in DOMAIN runs : MediaDenied(k)
    \/ \E k \in DOMAIN runs : OnOpen(k)
    \/ \E k \in DOMAIN runs : OnClose(k)
    \/ \E k \in DOMAIN runs : OnError(k)
    \/ \E k \in DOMAIN runs : arrived < LifeFragments /\ OnMessage(k, AudioMessage)
    \/ \E f \in decoding : DecodeDone(f, 1)
    \/ \E f \in decoding : DecodeFailed(f)
    \/ \E i \in DOMAIN sources : Ended(i)
    \/ Disconnect

Spec == Init /\ [][Next]_vars

\* races: connect() called again while earlier runs of it are in flight
NextRace ==
    \/ Len(runs) < RaceRuns /\ Connect
    \/ \E k \in DOMAIN runs : Resumed(k)
    \/ \E k \in DOMAIN runs : MediaGranted(k)
    \/ \E k \in DOMAIN runs : MediaDenied(k)
    \/ \E k \in DOMAIN runs : OnOpen(k)
    \/ \E k \in DOMAIN runs : OnClose(k)
    \/ \E k \in DOMAIN runs : OnError(k)
    \/ \E k \in DOMAIN runs : Len(frames) < RaceFrames /\ OnAudioProcess(k)
    \/ Disconnect

SpecRace == Init /\ [][NextRace]_vars

\* playback: the hook driven through App's two buttons (connect while neither
\* connected nor connecting, disconnect while connected), audio fragments of
\* several durations, decodes that take time, an advancing clock
NextPlay ==
    \/ Len(runs) < PlayRuns /\ ~isConnected /\ ~isConnecting /\ Connect
    \/ \E k \in DOMAIN runs : Resumed(k)
    \/ \E k \in DOMAIN runs : MediaGranted(k)
    \/ \E k \in DOMAIN runs : OnOpen(k)
    \/ \E k \in DOMAIN runs : arrived < PlayFragments /\ OnMessage(k, AudioMessage)
    \/ \E f \in decoding, d \in Durations : DecodeDone(f, d)
    \/ now < MaxTime /\ Tick
    \/ isConnected /\ Disconnect

SpecPlay == Init /\ [][NextPlay]_vars

\* playback over a reconnect: as NextPlay, with a second connect() after the
\* disconnect()
NextReplay ==
    \/ Len(runs) < ReplayRuns /\ ~isConnected /\ ~isConnecting /\ Connect
    \/ \E k \in DOMAIN runs : Resumed(k)
    \/ \E k \in DOMAIN runs : MediaGranted(k)
    \/ \E k \in DOMAIN runs : OnOpen(k)
    \/ \E k \in DOMAIN runs : arrived < PlayFragments /\ OnMessage(k, AudioMessage)
    \/ \E f \in decoding, d \in Durations : DecodeDone(f, d)
    \/ now < MaxTime /\ Tick
    \/ isConnected /\ Disconnect

SpecReplay == Init /\ [][NextReplay]_vars

\* playback to its end: as NextPlay, with the completion callbacks of the
\* buffers
NextTrack ==
    \/ Len(runs) < TrackRuns /\ ~isConnected /\ ~isConnecting /\ Connect
    \/ \E k \in DOMAIN runs : Resumed(k)
    \/ \E k \in DOMAIN runs : MediaGranted(k)
    \/ \E k \in DOMAIN runs : OnOpen(k)
    \/ \E k \in DOMAIN runs : arrived < TrackFragments /\ OnMessage(k, AudioMessage)
    \/ \E f \in decoding, d \in Durations : DecodeDone(f, d)
    \/ \E i \in DOMAIN sources : Ended(i)
    \/ now < TrackTime /\ Tick
    \/ isConnected /\ Disconnect

SpecTrack == Init /\ [][NextTrack]_vars

\* tool calls: messages of one or two function calls
NextTool ==
    \/ Len(runs) < ToolRuns /\ Connect
    \/ \E k \in DOMAIN runs : Resumed(k)
    \/ \E k \in DOMAIN runs : MediaGranted(k)
    \/ \E k \in DOMAIN runs : OnOpen(k)
    \/ \E k \in DOMAIN runs : OnClose(k)
    \/ \E k \in DOMAIN runs, m \in ToolMessages :
          Len(calls) + Len(m.toolCall) <= MaxInvocations /\ OnMessage(k, m)
    \/ \E k \in DOMAIN runs : OnMessage(k, TranscriptMessage)
    \/ Disconnect

SpecTool == Init /\ [][NextTool]_vars

\* the calls of a calculator conversation: well-formed ones and a spoken
\* value that is not a number
CalcCalls ==
    {Call("ADD", "2"), Call("SUBTRACT", "2"), Call("MULTIPLY", "2"),
     Call("DIVIDE", "2"), Call("DIVIDE", "0"), Call("RESET", "0"),
     Call("ADD", "abc")}

CalcMessages ==
    {[toolCall |-> fcs, transcript |-> "", audio |-> FALSE] :
        fcs \in {<<a>> : a \in CalcCalls}
                \cup {<<a, b>> : a \in CalcCalls, b \in CalcCalls}}

\* the calculator driven through the App's buttons
NextCalc ==
    \/ Len(runs) < CalcRuns /\ ~isConnected /\ ~isConnecting /\ Connect
    \/ \E k \in DOMAIN runs : Resumed(k)
    \/ \E k \in DOMAIN runs : MediaGranted(k)
    \/ \E k \in DOMAIN runs : OnOpen(k)
    \/ \E k \in DOMAIN runs, m \in CalcMessages :
          Len(calls) + Len(m.toolCall) <= CalcInvocations /\ OnMessage(k, m)
    \/ isConnected /\ Disconnect

SpecCalc == Init /\ [][NextCalc]_vars

(***************************************************************************)
(* Claims                                                                  *)
(***************************************************************************)
Ids(seq) == [i \in 1..Len(seq) |-> seq[i].id]
IsOpenCall(c) == c.open
AcksOpenCall(a) == calls[a.id].open

\* C1: every function call delivered while the session is Open is
\* acknowledged exactly once, and the acknowledgements are sent in the order
\* of receipt.
C1_AckedOnceInOrder ==
    Ids(SelectSeq(acks, AcksOpenCall)) = Ids(SelectSeq(calls, IsOpenCall))

\* a connect() run holds resources: a remote session that is not closed, or
\* an audio context that is not closed
Live(k) ==
    \/ runs[k].conn \in {"connecting", "open", "closing"}
    \/ runs[k].inputCtx \in {"suspended", "running"}
    \/ runs[k].outputCtx \in {"suspended", "running"}

\* C2: at most one session with its audio pair is created and not yet torn
\* down.
C2_AtMostOneSession == Cardinality({k \in DOMAIN runs : Live(k)}) <= 1

End(i) == sources[i].start + sources[i].duration

\* C3: in the order the buffers are scheduled, the start times never decrease
\* and each buffer starts no earlier than the previous one's start + duration.
C3_NoOverlap ==
    \A i \in 2..Len(sources) :
        /\ sources[i].start >= sources[i - 1].start
        /\ sources[i].start >= End(i - 1)

\* two buffers scheduled out of arrival order, the second after a pause
C3_Witness ==
    /\ Len(sources) = 2
    /\ sources[2].n < sources[1].n
    /\ sources[2].at > sources[1].at

\* C4: a fragment delivered before another is scheduled to start earlier.
C4_ArrivalOrder ==
    \A i, j \in DOMAIN sources :
        sources[i].n < sources[j].n => sources[i].start < sources[j].start

\* C5: no buffer is given a start time earlier than the output clock's time
\* at the moment it is scheduled.
C5_StartNotBeforeClock ==
    \A i \in DOMAIN sources : sources[i].start >= sources[i].at

\* C6: a buffer scheduled while the previous buffer of the same output clock
\* has not finished (its end >= the clock) starts exactly at the previous
\* buffer's start + duration, whenever its message arrived.
C6_Gapless ==
    \A i \in 2..Len(sources) :
        (sources[i].ctx = sources[i - 1].ctx /\ End(i - 1) >= sources[i].at)
            => sources[i].start = End(i - 1)

\* a buffer of duration 2 at t0 = 0, the next one arriving and scheduled one
\* tick later: it starts at t0 + 2
C6_Witness ==
    /\ Len(sources) = 2
    /\ sources[1].duration = 2
    /\ sources[1].start = 0
    /\ sources[2].at = 1
    /\ sources[2].start = 2

\* C7: when disconnect() returns it has raised nothing and isConnected and
\* isConnecting are false, whatever the state it was called in.
C7_DisconnectSafe ==
    lastOp.op = "disconnect" => ~lastOp.threw /\ ~isConnected /\ ~isConnecting

\* disconnect() returned while the remote connection was still being opened
C7_Witness ==
    /\ lastOp.op = "disconnect"
    /\ \E k \in DOMAIN runs : runs[k].conn = "connecting" /\ runs[k].closeQueued

\* C8: connect() called while connected changes no field of the controller
\* and creates no session and no audio context.
C8_ConnectNoop ==
    [][(lastOp'.op = "connect" /\ isConnected) => UNCHANGED <<ctrl, runs>>]_vars

\* connect() returned while connected, a buffer still in the active set
C8_Witness ==
    /\ lastOp.op = "connect"
    /\ isConnected
    /\ sourcesRef # {}

\* everything run k made has been torn down
TornDown(k) ==
    /\ runs[k].inputCtx = "closed"
    /\ runs[k].outputCtx = "closed"
    /\ sourcesRef = {}
    /\ \A i \in DOMAIN sources : sources[i].state # "started"

\* C9: after the close or error callback of an Open session has run, its
\* audio contexts are closed, every active buffer is stopped and the active
\* set is empty.
C9_CloseTearsDown ==
    (lastOp.op \in {"onclose", "onerror"} /\ lastOp.from = "open")
        => TornDown(lastOp.k)

\* the state an error on an Open session leaves
ErrorState ==
    (lastOp.op = "onerror" /\ lastOp.from = "open")
        => error = ConnectionError /\ ~isConnected /\ ~activeRef /\ ~ConnectGuard

\* a remote session is created only by a connect() run that was called after
\* every error of an Open session
NoSessionUntilConnect ==
    \A k \in DOMAIN runs :
        (runs[k].conn = "none" /\ runs'[k].conn = "connecting")
            => \A j \in DOMAIN runs : runs[j].failedAt < k

\* C10: an error on an Open session sets the connectivity message, clears
\* isConnected and the active guard so that connect() is accepted, and no
\* remote session is created after it until connect() is called again.
C10_ErrorNoRetry == []ErrorState /\ [][NoSessionUntilConnect]_vars

\* the task that ran last was the failure of a connection setup: getUserMedia
\* rejected, or the remote connection errored before it opened
SetupFailed ==
    \/ lastOp.op = "mediaDenied"
    \/ lastOp.op = "onerror" /\ lastOp.from = "connecting"

\* C11: after every kind of setup failure an error string is set and
\* isConnecting is false.
C11_SetupFailureSurfaced == SetupFailed => error # NoError /\ ~isConnecting

\* C12: after a setup failure no audio context made by the failed run is open
\* or referenced by the controller, the active guard is false and connect()
\* is accepted.
C12_SetupFailureClean ==
    lastOp.op = "mediaDenied" =>
        /\ runs[lastOp.k].inputCtx = "closed"
        /\ runs[lastOp.k].outputCtx = "closed"
        /\ inputAudioContextRef # lastOp.k
        /\ outputAudioContextRef # lastOp.k
        /\ ~activeRef
        /\ ~ConnectGuard


Acked(id) == \E i \in DOMAIN acks : acks[i].id = id

\* C13: an onOperation call for an operation name that the enum does not
\* declare is made with UNKNOWN, and the call is acknowledged.
C13_UnknownNameMapped ==
    \A j \in DOMAIN ops :
        ops[j].key \notin OperationType => ops[j].op = "UNKNOWN" /\ Acked(ops[j].id)

\* C14: an onOperation call whose value is not a number is made with UNKNOWN,
\* whatever its operation name, and the call is acknowledged.
C14_NonNumericMapped ==
    \A j \in DOMAIN ops :
        IsNaN(ops[j].value) => ops[j].op = "UNKNOWN" /\ Acked(ops[j].id)

\* C15: when the acknowledgement of a call is sent, the onOperation call for
\* it has returned.
C15_AckAfterOperation ==
    \A i \in DOMAIN acks :
        \E j \in 1..acks[i].after : ops[j].id = acks[i].id

\* a message of two calls was handled and both were acknowledged
C15_Witness ==
    /\ lastOp.op = "onmessage"
    /\ \E i \in DOMAIN acks :
          /\ i + 1 \in DOMAIN acks
          /\ acks[i].after = acks[i + 1].after
          /\ acks[i + 1].id = acks[i].id + 1

\* C20: a DIVIDE with value 0 leaves the running total as it was, and the
\* call that carried it is acknowledged.
C20_DivideByZero ==
    \A j \in DOMAIN ops :
        ops[j].op = "DIVIDE" /\ ops[j].value = Zero
            => ops[j].after = ops[j].before /\ Acked(ops[j].id)

\* a DIVIDE by 0 of a total that is neither 0 nor a non-number
C20_Witness ==
    \E j \in DOMAIN ops :
        /\ ops[j].op = "DIVIDE" /\ ops[j].value = Zero
        /\ ops[j].before \notin {Zero, NaN}
        /\ currentTotal = ops[j].before
        /\ Acked(ops[j].id)


\* the step is a callback of a session that was torn down before a newer
\* connect() run was made
StaleCallback ==
    /\ lastOp'.op \in {"onopen", "onclose", "onerror", "onmessage", "decoded",
                       "audioprocess"}
    /\ lastOp'.k \in DOMAIN runs
    /\ runs[lastOp'.k].tornAt # 0
    /\ runs[lastOp'.k].tornAt < Len(runs)

\* C16: a callback of a session that was torn down before a newer session was
\* created leaves isConnected, the active guard, the watermark and the active
\* buffer set as they are.
C16_StaleCallbackInert ==
    [][StaleCallback => UNCHANGED <<isConnected, activeRef, nextStartTimeRef, sourcesRef>>]_vars

\* the step handles a message, or resumes the handling of one after its
\* decode, for a session whose teardown has begun
DispatchAfterTeardown ==
    /\ lastOp'.op \in {"onmessage", "decoded"}
    /\ runs[lastOp'.k].tornAt # 0

\* C17: once the teardown of a session has begun, a message delivered to it or
\* a decode of it that completes calls no operation or transcript callback,
\* sends no acknowledgement and schedules no buffer.
C17_NoDispatchAfterTeardown ==
    [][DispatchAfterTeardown
         => UNCHANGED <<ops, lastTranscript, acks, sources, sourcesRef>>]_vars

\* C18: a frame captured while the active guard is false is not transmitted,
\* and a frame captured while its session is Open is transmitted.
C18_CaptureFollowsSession ==
    \A i \in DOMAIN frames :
        /\ ~frames[i].active => ~frames[i].sent
        /\ frames[i].open => frames[i].sent

\* C19: when disconnect() returns the active set is empty and no buffer that
\* was started is still playing.
C19_DisconnectHaltsPlayback ==
    lastOp.op = "disconnect"
        => sourcesRef = {} /\ \A i \in DOMAIN sources : sources[i].state # "started"


\* the step is the arrival of an audio fragment at the session that owns the
\* current output context, no buffer having been scheduled on that context
FirstFragmentArrives ==
    /\ lastOp'.op = "onmessage"
    /\ decoding' # decoding
    /\ lastOp'.k = outputAudioContextRef
    /\ \A i \in DOMAIN sources : sources[i].ctx # outputAudioContextRef

\* C21: when the first fragment of a session arrives, the watermark becomes
\* the current time of the session's output clock: nothing is carried over
\* from an earlier session.
C21_FreshWatermark ==
    [][FirstFragmentArrives
         => nextStartTimeRef' = currentTime(outputAudioContextRef)]_vars


\* a buffer is in the active set exactly while it is scheduled and has neither
\* finished nor been stopped
TrackedWhilePlaying ==
    \A i \in DOMAIN sources : i \in sourcesRef <=> sources[i].state = "started"

\* no step puts a buffer back into the active set, starts it again or moves
\* its start, and a completion callback removes at most its own buffer
NeverRescheduled ==
    /\ \A i \in DOMAIN sources :
          /\ i \notin sourcesRef => i \notin sourcesRef'
          /\ sources[i].state # "started" => sources'[i].state # "started"
          /\ sources'[i].start = sources[i].start
    /\ lastOp'.op = "ended" =>
          /\ Cardinality(sourcesRef \ sourcesRef') <= 1
          /\ \A i \in sourcesRef \ sourcesRef' :
                sources[i].state = "started" /\ sources'[i].state = "ended"

\* C22: every scheduled buffer is in the active set from its scheduling until
\* it finishes or is stopped, leaves the set once and is never rescheduled; a
\* completion callback after a forced stop removes nothing else.
C22_TrackedUntilFinished == []TrackedWhilePlaying /\ [][NeverRescheduled]_vars

\* the completion callback of a buffer that disconnect() stopped before its
\* end has run
C22_Witness ==
    /\ lastOp.op = "ended"
    /\ sourcesRef = {}
    /\ \E i \in DOMAIN sources :
          /\ sources[i].state = "ended"
          /\ runs[sources[i].ctx].outputCtx = "closed"
          /\ currentTime(sources[i].ctx)
               < Max(sources[i].start, sources[i].at) + sources[i].duration


\* C23: after every task of the hook, isConnected equals the active guard, and
\* isConnected and isConnecting are not both true.
C23_FlagsAgree ==
    /\ isConnected = activeRef
    /\ ~(isConnected /\ isConnecting)

\* a session has just opened while connect() had set isConnecting
C23_Witness ==
    /\ lastOp.op = "onopen"
    /\ isConnected /\ activeRef /\ ~isConnecting
    /\ runs[lastOp.k].conn = "open"

====
